---- MODULE Spec2Model ----
(***************************************************************************)
(* Model of the server-driven data table of the admin dashboard:           *)
(*   - getDataTablePaging, buildDataTablesQueryParams, useDebouncedSearch  *)
(*     and useServerDataTable (DataTableShell module),                     *)
(*   - ServerDataTable (the component that composes them).                 *)
(*                                                                         *)
(* JavaScript strings are sequences of one-character strings, so that      *)
(* String.prototype.trim and String(number) are computed, not assumed.     *)
(***************************************************************************)
EXTENDS Integers, Sequences, FiniteSets, TLC

(***************************************************************************)
(* Bounds of the model.                                                    *)
(***************************************************************************)
MaxRecords    == 57  \* recordsTotal ranges over 0..MaxRecords
MaxFiltered   == 12  \* recordsFiltered ranges over 0..MaxFiltered
MaxPageSize   == 10  \* pageSize ranges over 0..MaxPageSize
MaxPageIndex  == 6   \* pageIndex ranges over 0..MaxPageIndex
MaxTarget     == 8   \* goToPage targets range over -1..MaxTarget
MaxStart      == 11  \* start ranges over 0..MaxStart
MaxLength     == 2   \* length ranges over 1..MaxLength
MaxSortColumn == 1   \* sortColumn ranges over 0..MaxSortColumn

(***************************************************************************)
(* JavaScript values and strings.                                          *)
(***************************************************************************)
Str(s) == [kind |-> "string", s |-> s, n |-> 0]
Num(n) == [kind |-> "number", s |-> <<>>, n |-> n]
Null == [kind |-> "null", s |-> <<>>, n |-> 0]
Undefined == [kind |-> "undefined", s |-> <<>>, n |-> 0]

Space == " "

RECURSIVE TrimStart(_)
TrimStart(s) ==
  IF s = <<>> THEN <<>>
  ELSE IF Head(s) = Space THEN TrimStart(Tail(s)) ELSE s

RECURSIVE TrimEnd(_)
TrimEnd(s) ==
  IF s = <<>> THEN <<>>
  ELSE IF s[Len(s)] = Space THEN TrimEnd(SubSeq(s, 1, Len(s) - 1)) ELSE s

\* String.prototype.trim
Trim(s) == TrimEnd(TrimStart(s))

Digits == <<"0", "1", "2", "3", "4", "5", "6", "7", "8", "9">>

\* String(n) for a non-negative integer n
RECURSIVE NumToStr(_)
NumToStr(n) ==
  IF n < 10 THEN <<Digits[n + 1]>>
  ELSE NumToStr(n \div 10) \o <<Digits[(n % 10) + 1]>>

DigitValue(c) == CHOOSE d \in 0..9 : Digits[d + 1] = c

\* the number a decimal string denotes (what the server reads back)
RECURSIVE StrToNum(_)
StrToNum(s) ==
  IF s = <<>> THEN 0
  ELSE 10 * StrToNum(SubSeq(s, 1, Len(s) - 1)) + DigitValue(s[Len(s)])

\* String(value) for a string or number value
ToStr(v) == IF v.kind = "number" THEN NumToStr(v.n) ELSE v.s

Min(a, b) == IF a < b THEN a ELSE b
Max(a, b) == IF a > b THEN a ELSE b

(***************************************************************************)
(* getDataTablePaging                                                      *)
(***************************************************************************)
\* recordsFiltered || recordsTotal
totalForDisplay_ignoreFiltered(rt, rf) == rt
totalForDisplay(rt, rf) == IF rf # 0 THEN rf ELSE rt

\* Math.ceil(a / b) for a >= 0, b > 0
CeilDiv(a, b) == IF a % b = 0 THEN a \div b ELSE (a \div b) + 1

totalPages_floor(total, ps) == IF ps > 0 THEN Max(1, total \div ps) ELSE 1
totalPages(total, ps) == IF ps > 0 THEN Max(1, CeilDiv(total, ps)) ELSE 1

currentFrom(pi, ps, total) == IF total = 0 THEN 0 ELSE pi * ps + 1
currentTo(pi, ps, total) == Min(pi * ps + ps, total)

\* the index goToPage(page) hands to onPageIndexChange
goToPage_noLowerClamp(page, tp) == Min(page, tp) - 1
goToPage(page, tp) == Min(Max(page, 1), tp) - 1

getDataTablePaging(pi, ps, rt, rf) ==
  LET total == totalForDisplay(rt, rf)
  IN [currentFrom     |-> currentFrom(pi, ps, total),
      currentTo       |-> currentTo(pi, ps, total),
      totalForDisplay |-> total,
      totalPages      |-> totalPages(total, ps),
      currentPage     |-> pi + 1]

(***************************************************************************)
(* buildDataTablesQueryParams                                              *)
(* URLSearchParams is an ordered list of <<key, value>> pairs; set(k, v)   *)
(* replaces the value of an existing key in place and appends otherwise.   *)
(***************************************************************************)
ParamHas(params, k) == \E i \in 1..Len(params) : params[i][1] = k
ParamGet(params, k) ==
  params[CHOOSE i \in 1..Len(params) : params[i][1] = k][2]
ParamSet(params, k, v) ==
  IF ParamHas(params, k)
  THEN [i \in 1..Len(params) |->
          IF params[i][1] = k THEN <<k, v>> ELSE params[i]]
  ELSE Append(params, <<k, v>>)

\* the sort direction as the string written into the query
DirStr(d) == IF d = "asc" THEN <<"a", "s", "c">> ELSE <<"d", "e", "s", "c">>

\* if (trimmedSearch) params.set("search[value]", trimmedSearch)
SetSearch(params, search) ==
  IF search.kind = "string" /\ Trim(search.s) # <<>>
  THEN ParamSet(params, "search[value]", Trim(search.s))
  ELSE params

\* one iteration of the loop over Object.entries(extraFilters)
SetFilter_keepBlank(params, key, value) ==
  IF value.kind \in {"null", "undefined"} THEN params
  ELSE ParamSet(params, key, Trim(ToStr(value)))
SetFilter(params, key, value) ==
  IF value.kind \in {"null", "undefined"} THEN params
  ELSE IF Trim(ToStr(value)) = <<>> THEN params
  ELSE ParamSet(params, key, Trim(ToStr(value)))

\* extraFilters is a sequence of <<key, value>> entries in insertion order;
\* Undefined stands for an options object without extraFilters.
RECURSIVE SetFilters(_, _)
SetFilters(params, entries) ==
  IF entries = <<>> THEN params
  ELSE SetFilters(SetFilter(params, entries[1][1], entries[1][2]),
                  Tail(entries))

buildDataTablesQueryParams(o) ==
  LET p0 == <<<<"draw", <<"1">>>>,
              <<"start", NumToStr(o.start)>>,
              <<"length", NumToStr(o.length)>>>>
      p1 == SetSearch(p0, o.search)
      p2 == SetFilters(p1, o.extraFilters)
      p3 == ParamSet(p2, "order[0][column]", NumToStr(o.sortColumn))
  IN ParamSet(p3, "order[0][dir]", DirStr(o.sortDir))

(***************************************************************************)
(* ServerDataTable: the columns of the table and the program constants.    *)
(***************************************************************************)
NoKey == "<undefined>"   \* a query key the column definition does not declare

\* The column definitions (two of the columns TransactionsTable declares):
\* a text filter and a select filter, each with a declared query key.
Columns ==
  << [id |-> "from", sortable |-> TRUE, kind |-> "text",
      queryKey |-> "from", minQueryKey |-> NoKey, maxQueryKey |-> NoKey,
      fromQueryKey |-> NoKey, toQueryKey |-> NoKey],
     [id |-> "type", sortable |-> TRUE, kind |-> "select",
      queryKey |-> "type", minQueryKey |-> NoKey,
      maxQueryKey |-> NoKey,
      fromQueryKey |-> NoKey, toQueryKey |-> NoKey] >>

pageSizeInitial == 10
searchMinLength == 3
PageSizes == {10, 25}             \* the first entries of [10, 25, 50, 100]

\* what the user can type into the search box and into a filter input
SearchInputs == {<<>>, <<"a">>, <<"a", "b", "c">>}
FilterInputs == {<<>>, <<"a">>, <<"a", " ">>}

\* the (recordsTotal, recordsFiltered) pairs a response can report
RecordCounts == {<<25, 0>>, <<25, 5>>}
\* the ways a request can fail: an ApiError status, or another exception
Failures == {[api |-> TRUE, status |-> 401], [api |-> TRUE, status |-> 500],
             [api |-> FALSE, status |-> 0]}

MaxEvents == 3    \* number of user inputs in one behaviour
MaxInflight == 2  \* the user waits while this many requests are in flight
MaxPages == 3     \* pages of the pagination control the user can pick

(***************************************************************************)
(* State.                                                                  *)
(***************************************************************************)
VARIABLES
  sortColumn, sortDir, filterState,        \* ServerDataTable useState
  search, pendingSearch, timer,            \* useDebouncedSearch
  pageSize, pageIndex, data, recordsTotal, \* useServerDataTable useState
  recordsFiltered, loading, error,
  rendered,        \* dependency values of the last committed render
  filterFresh,     \* setFilterState has produced a new object since then
  dirty,           \* a state update is waiting for a render
  inflight,        \* identifiers of the requests issued and not yet resolved
  issued,          \* number of requests issued so far
  lastIssued,      \* query parameters of the most recent request
  nEvents,
  paging,          \* state of the getDataTablePaging checks
  query,           \* state of the buildDataTablesQueryParams checks
  debounce,        \* state of a useDebouncedSearch instance on its own
  filters,         \* state of the getFilterStateFromColumns checks
  http,            \* state of the apiRequest checks
  hooks,           \* state of the data hooks under a changing auth token
  pager,           \* state of the page item checks of DataTableShell
  auth             \* session storage and the state of AuthProvider

tableVars ==
  <<sortColumn, sortDir, filterState, search, pendingSearch, timer,
    pageSize, pageIndex, data, recordsTotal, recordsFiltered, loading,
    error, rendered, filterFresh, dirty, inflight, issued, lastIssued,
    nEvents>>

\* the state of the components that are modelled on their own
lateVars == <<pager, auth>>
moreVars == <<debounce, filters, http, hooks, lateVars>>

vars == <<tableVars, paging, query, moreVars>>

NoTimer == [set |-> FALSE, value |-> <<>>]
NoError == "null"
NoRequest == <<>>

(***************************************************************************)
(* Filter state: columnsWithState (the getters bound to filterState) and   *)
(* getFilterStateFromColumns (extraFilters and filterDeps).                *)
(***************************************************************************)
\* a ?? b on query keys
Coalesce(a, b) == IF a # NoKey THEN a ELSE b

\* For each value a column's filter reads: the filterState key its getter
\* is bound to (buildConfig) and the key getFilterStateFromColumns writes
\* the value under (NoKey when config.<x>QueryKey is undefined).
Slots(col) ==
  IF col.kind \in {"text", "select"}
  THEN << [stateKey |-> Coalesce(col.queryKey, col.id),
           outKey   |-> Coalesce(col.queryKey, col.id)] >>
  ELSE IF col.kind = "number-range"
  THEN << [stateKey |-> Coalesce(col.minQueryKey, col.id \o ":min"),
           outKey   |-> col.minQueryKey],
          [stateKey |-> Coalesce(col.maxQueryKey, col.id \o ":max"),
           outKey   |-> col.maxQueryKey] >>
  ELSE IF col.kind = "date-range"
  THEN << [stateKey |-> Coalesce(col.fromQueryKey, col.id \o ":from"),
           outKey   |-> col.fromQueryKey],
          [stateKey |-> Coalesce(col.toQueryKey, col.id \o ":to"),
           outKey   |-> col.toQueryKey] >>
  ELSE <<>>

RECURSIVE SlotsOf(_)
SlotsOf(cols) ==
  IF cols = <<>> THEN <<>> ELSE Slots(Head(cols)) \o SlotsOf(Tail(cols))

AllSlots == SlotsOf(Columns)
FilterKeys == {AllSlots[i].stateKey : i \in 1..Len(AllSlots)}

\* filterState[key] ?? ""
getValue(fs, key) == IF key \in DOMAIN fs THEN fs[key] ELSE <<>>

\* filterDeps: the raw value of every filter input, in column order
filterDepsOf(fs) ==
  [i \in 1..Len(AllSlots) |-> getValue(fs, AllSlots[i].stateKey)]

\* extraFilters[key] = trimmed, on an object kept in insertion order
ObjSet(obj, k, v) == ParamSet(obj, k, v)

RECURSIVE ExtraFiltersFrom(_, _, _)
ExtraFiltersFrom(fs, slots, acc) ==
  IF slots = <<>> THEN acc
  ELSE LET slot == Head(slots)
           trimmed == Trim(getValue(fs, slot.stateKey))
       IN ExtraFiltersFrom(fs, Tail(slots),
            IF slot.outKey # NoKey /\ trimmed # <<>>
            THEN ObjSet(acc, slot.outKey, Str(trimmed))
            ELSE acc)

extraFiltersOf(fs) == ExtraFiltersFrom(fs, AllSlots, <<>>)

\* buildQueryOptions({pageIndex, pageSize}) of ServerDataTable
buildQueryOptions(qPageIndex, qPageSize, qSearch, qSortColumn, qSortDir, fs) ==
  [start        |-> qPageIndex * qPageSize,
   length       |-> qPageSize,
   search       |-> Str(qSearch),
   sortColumn   |-> qSortColumn,
   sortDir      |-> qSortDir,
   extraFilters |-> extraFiltersOf(fs)]

\* defaultMapErrorMessage of ServerDataTable
defaultMapErrorMessage(err) ==
  IF err.api
  THEN IF err.status = 401
       THEN "Your session has expired. Please sign in again."
       ELSE "Failed to load data from server."
  ELSE "An unexpected error occurred while loading data."

(***************************************************************************)
(* Initial state: the values of the useState calls, before the first       *)
(* render is committed (no effect has run yet).                            *)
(***************************************************************************)
EmptyFilterState == [k \in {} |-> <<>>]

depsOf(pi, ps, se, sc, sd, fs) ==
  [mounted |-> TRUE, pageIndex |-> pi, pageSize |-> ps, search |-> se,
   sortColumn |-> sc, sortDir |-> sd, filterDeps |-> filterDepsOf(fs)]

PagingIdle == [phase |-> "idle"]
QueryIdle == [phase |-> "idle"]
DebounceIdle == [phase |-> "idle"]
FiltersIdle == [phase |-> "idle"]
HttpIdle == [phase |-> "idle"]
HooksIdle == [phase |-> "idle"]
PagerIdle == [phase |-> "idle"]
AuthIdle == [phase |-> "idle"]
LateIdle == pager = PagerIdle /\ auth = AuthIdle
MoreIdle ==
  /\ debounce = DebounceIdle
  /\ filters = FiltersIdle
  /\ http = HttpIdle
  /\ hooks = HooksIdle
  /\ LateIdle

InitTable ==
  /\ sortColumn = 0
  /\ sortDir = "desc"
  /\ filterState = EmptyFilterState
  /\ search = <<>>
  /\ pendingSearch = <<>>
  /\ timer = NoTimer
  /\ pageSize = pageSizeInitial
  /\ pageIndex = 0
  /\ data = 0
  /\ recordsTotal = 0
  /\ recordsFiltered = 0
  /\ loading = FALSE
  /\ error = NoError
  /\ rendered = [depsOf(0, pageSizeInitial, <<>>, 0, "desc", EmptyFilterState)
                   EXCEPT !.mounted = FALSE]
  /\ filterFresh = FALSE
  /\ dirty = TRUE
  /\ inflight = {}
  /\ issued = 0
  /\ lastIssued = NoRequest
  /\ nEvents = 0

Init == InitTable /\ paging = PagingIdle /\ query = QueryIdle /\ MoreIdle

(***************************************************************************)
(* Render: one committed render of ServerDataTable followed by its         *)
(* effects, in the order the hooks are declared:                           *)
(*   1. the effect of useDebouncedSearch (its onCommit dependency is a new *)
(*      arrow function on every render, so it runs after every render),    *)
(*   2. the fetch effect of useServerDataTable,                            *)
(*   3. the page reset effect of ServerDataTable.                          *)
(* The effects see the values of the render; the state they set is         *)
(* rendered by the next Render.                                            *)
(***************************************************************************)
\* onCommit: () => setPageIndex(0)
onCommit_keepPage(pi) == pi
onCommit(pi) == 0

\* the dependency list of the fetch effect differs from the last render's
fetchDepsChanged_orError ==
  \/ ~rendered.mounted
  \/ error # NoError
  \/ rendered # depsOf(pageIndex, pageSize, search, sortColumn, sortDir,
                       filterState)
  \/ filterFresh
fetchDepsChanged ==
  \/ ~rendered.mounted
  \/ rendered.pageIndex # pageIndex
  \/ rendered.pageSize # pageSize
  \/ rendered.search # search
  \/ rendered.sortColumn # sortColumn
  \/ rendered.sortDir # sortDir
  \/ filterFresh                           \* extraFilters is a new object
  \/ rendered.filterDeps # filterDepsOf(filterState)

\* the dependency list of the page reset effect differs
resetDepsChanged ==
  \/ ~rendered.mounted
  \/ rendered.filterDeps # filterDepsOf(filterState)

hasDeps == Len(filterDepsOf(filterState)) > 0

Render ==
  /\ dirty
  /\ LET trimmed == Trim(pendingSearch)
         commitNow == Len(trimmed) >= searchMinLength \/ Len(trimmed) = 0
         doFetch == fetchDepsChanged
         doReset == resetDepsChanged /\ hasDeps
         params == buildDataTablesQueryParams(
                     buildQueryOptions(pageIndex, pageSize, search,
                                       sortColumn, sortDir, filterState))
         pi1 == IF commitNow THEN onCommit(pageIndex) ELSE pageIndex
         pi2 == IF doReset THEN 0 ELSE pi1
         se1 == IF commitNow THEN trimmed ELSE search
         lo1 == IF doFetch THEN TRUE ELSE loading
         er1 == IF doFetch THEN NoError ELSE error
     IN /\ timer' = IF commitNow THEN NoTimer
                    ELSE [set |-> TRUE, value |-> trimmed]
        /\ search' = se1
        /\ pageIndex' = pi2
        /\ loading' = lo1
        /\ error' = er1
        /\ IF doFetch
           THEN /\ issued' = issued + 1
                /\ inflight' = inflight \cup {issued + 1}
                /\ lastIssued' = params
           ELSE UNCHANGED <<issued, inflight, lastIssued>>
        /\ rendered' = depsOf(pageIndex, pageSize, search, sortColumn,
                              sortDir, filterState)
        /\ filterFresh' = FALSE
        /\ dirty' = (se1 # search \/ pi2 # pageIndex \/ lo1 # loading
                     \/ er1 # error)
  /\ UNCHANGED <<sortColumn, sortDir, filterState, pendingSearch, pageSize,
                 data, recordsTotal, recordsFiltered, nEvents, paging, query,
                 moreVars>>

(***************************************************************************)
(* Resolution of a request: the continuation of fetchData after the await. *)
(* The AbortController of the effect is aborted by the cleanup, but its    *)
(* signal is neither passed to apiRequest nor tested, so the continuation  *)
(* of every request runs, whichever request is the latest.  It runs once   *)
(* the pending render has been committed.                                  *)
(***************************************************************************)
effectiveMapErrorMessage(err) == defaultMapErrorMessage(err)

\* the mount issues one request, a user input at most two
RequestIds == 1..(1 + 2 * MaxEvents)

ResolveOk(id, counts) ==
  /\ ~dirty
  /\ id \in inflight
  /\ inflight' = inflight \ {id}
  /\ data' = id
  /\ recordsTotal' = counts[1]
  /\ recordsFiltered' = counts[2]
  /\ loading' = FALSE
  /\ dirty' = TRUE
  /\ UNCHANGED <<sortColumn, sortDir, filterState, search, pendingSearch,
                 timer, pageSize, pageIndex, error, rendered, filterFresh,
                 issued, lastIssued, nEvents, paging, query,
                 moreVars>>

\* the rows after the catch and finally blocks: neither calls setData
rowsAfterFailure_cleared(rows) == 0
rowsAfterFailure(rows) == rows

ResolveFail(id, err) ==
  /\ ~dirty
  /\ id \in inflight
  /\ inflight' = inflight \ {id}
  /\ error' = effectiveMapErrorMessage(err)
  /\ loading' = FALSE
  /\ data' = rowsAfterFailure(data)
  /\ dirty' = (dirty \/ error' # error \/ loading)
  /\ UNCHANGED <<sortColumn, sortDir, filterState, search, pendingSearch,
                 timer, pageSize, pageIndex, recordsTotal,
                 recordsFiltered, rendered, filterFresh, issued, lastIssued,
                 nEvents, paging, query,
                 moreVars>>

(***************************************************************************)
(* The delayed commit of useDebouncedSearch (the setTimeout callback); it  *)
(* runs once the pending render has been committed.                        *)
(***************************************************************************)
TimerFire ==
  /\ ~dirty
  /\ timer.set
  /\ timer' = NoTimer
  /\ search' = timer.value
  /\ pageIndex' = onCommit(pageIndex)
  /\ dirty' = (dirty \/ search' # search \/ pageIndex' # pageIndex)
  /\ UNCHANGED <<sortColumn, sortDir, filterState, pendingSearch, pageSize,
                 data, recordsTotal, recordsFiltered, loading, error,
                 rendered, filterFresh, inflight, issued, lastIssued,
                 nEvents, paging, query,
                 moreVars>>

(***************************************************************************)
(* User input, handled once the pending render has been committed; at most *)
(* MaxEvents inputs are made.                                              *)
(***************************************************************************)
CanInput ==
  ~dirty /\ nEvents < MaxEvents /\ Cardinality(inflight) < MaxInflight

\* onSearchChange = setPendingSearch
SetPendingSearch(v) ==
  /\ CanInput
  /\ v # pendingSearch
  /\ pendingSearch' = v
  /\ dirty' = TRUE
  /\ nEvents' = nEvents + 1
  /\ UNCHANGED <<sortColumn, sortDir, filterState, search, timer, pageSize,
                 pageIndex, data, recordsTotal, recordsFiltered, loading,
                 error, rendered, filterFresh, inflight, issued, lastIssued,
                 paging, query,
                 moreVars>>

\* setValue / setMin / setMax / setFrom / setTo of a column filter:
\* setFilterState((prev) => ({ ...prev, [key]: value }))
SetFilterValue(key, v) ==
  /\ CanInput
  /\ key \in FilterKeys
  /\ v # getValue(filterState, key)
  /\ filterState' = [k \in DOMAIN filterState \cup {key} |->
                       IF k = key THEN v ELSE filterState[k]]
  /\ filterFresh' = TRUE
  /\ dirty' = TRUE
  /\ nEvents' = nEvents + 1
  /\ UNCHANGED <<sortColumn, sortDir, search, pendingSearch, timer, pageSize,
                 pageIndex, data, recordsTotal, recordsFiltered, loading,
                 error, rendered, inflight, issued, lastIssued, paging, query,
                 moreVars>>

\* the sort column and direction after handleSort(columnIndex)
sortAfter_noFlip(col, dir, columnIndex) ==
  IF col = columnIndex
  THEN [column |-> col, dir |-> dir]
  ELSE [column |-> columnIndex, dir |-> "asc"]
sortAfter(col, dir, columnIndex) ==
  IF col = columnIndex
  THEN [column |-> col, dir |-> IF dir = "asc" THEN "desc" ELSE "asc"]
  ELSE [column |-> columnIndex, dir |-> "asc"]

handleSort(columnIndex) ==
  /\ CanInput
  /\ Columns[columnIndex + 1].sortable
  /\ pageIndex' = 0
  /\ sortColumn' = sortAfter(sortColumn, sortDir, columnIndex).column
  /\ sortDir' = sortAfter(sortColumn, sortDir, columnIndex).dir
  /\ dirty' = (pageIndex' # pageIndex \/ sortColumn' # sortColumn
               \/ sortDir' # sortDir)
  /\ nEvents' = nEvents + 1
  /\ UNCHANGED <<filterState, search, pendingSearch, timer, pageSize, data,
                 recordsTotal, recordsFiltered, loading, error, rendered,
                 filterFresh, inflight, issued, lastIssued, paging, query,
                 moreVars>>

\* the paging summary ServerDataTable hands to DataTableShell
tablePaging ==
  getDataTablePaging(pageIndex, pageSize, recordsTotal, recordsFiltered)
safeTotalPages ==
  IF tablePaging.totalPages > 0 THEN tablePaging.totalPages ELSE 1
safeCurrentPage == Min(Max(tablePaging.currentPage, 1), safeTotalPages)

\* onPageChange = goToPage, called by handleFirst / handlePrev / handleNext /
\* handleLast / handlePageClick with a page of the control other than the
\* current one
PageChange(page) ==
  /\ CanInput
  /\ page \in 1..safeTotalPages
  /\ page # safeCurrentPage
  /\ pageIndex' = goToPage(page, tablePaging.totalPages)
  /\ dirty' = (pageIndex' # pageIndex)
  /\ nEvents' = nEvents + 1
  /\ UNCHANGED <<sortColumn, sortDir, filterState, search, pendingSearch,
                 timer, pageSize, data, recordsTotal, recordsFiltered,
                 loading, error, rendered, filterFresh, inflight, issued,
                 lastIssued, paging, query,
                 moreVars>>

\* onPageSizeChange: setPageSize(nextSize); setPageIndex(0)
PageSizeChange(nextSize) ==
  /\ CanInput
  /\ nextSize # pageSize
  /\ pageSize' = nextSize
  /\ pageIndex' = 0
  /\ dirty' = TRUE
  /\ nEvents' = nEvents + 1
  /\ UNCHANGED <<sortColumn, sortDir, filterState, search, pendingSearch,
                 timer, data, recordsTotal, recordsFiltered, loading, error,
                 rendered, filterFresh, inflight, issued, lastIssued,
                 paging, query,
                 moreVars>>

\* the updater handleResetFilters passes to setFilterState: every key of the
\* state gets the empty string
resetFilterState_keepValues(prev) == prev
resetFilterState(prev) == [k \in DOMAIN prev |-> <<>>]

\* handleResetFilters: setPageIndex(0); resetSearch(); setFilterState(...)
handleResetFilters ==
  /\ CanInput
  /\ pageIndex' = onCommit(0)
  /\ search' = <<>>
  /\ pendingSearch' = <<>>
  /\ filterState' = resetFilterState(filterState)
  /\ filterFresh' = (filterFresh \/ DOMAIN filterState # {})
  /\ dirty' = (pageIndex' # pageIndex \/ search' # search
               \/ pendingSearch' # pendingSearch \/ DOMAIN filterState # {})
  /\ nEvents' = nEvents + 1
  /\ UNCHANGED <<sortColumn, sortDir, timer, pageSize, data, recordsTotal,
                 recordsFiltered, loading, error, rendered, inflight, issued,
                 lastIssued, paging, query,
                 moreVars>>

NextTable ==
  \/ Render
  \/ \E id \in RequestIds, counts \in RecordCounts : ResolveOk(id, counts)
  \/ \E id \in RequestIds, err \in Failures : ResolveFail(id, err)
  \/ TimerFire
  \/ \E v \in SearchInputs : SetPendingSearch(v)
  \/ \E key \in FilterKeys, v \in FilterInputs : SetFilterValue(key, v)
  \/ \E c \in 0..(Len(Columns) - 1) : handleSort(c)
  \/ \E page \in 1..MaxPages : PageChange(page)
  \/ \E n \in PageSizes : PageSizeChange(n)
  \/ handleResetFilters

Next == NextTable

Spec == Init /\ [][Next]_vars

(***************************************************************************)
(* getDataTablePaging on its own: the arguments are drawn from the bounded *)
(* ranges, the function is applied, then goToPage is called once.          *)
(***************************************************************************)
NoInfo ==
  [currentFrom |-> 0, currentTo |-> 0, totalForDisplay |-> 0,
   totalPages |-> 0, currentPage |-> 0]

InitPaging ==
  /\ InitTable
  /\ query = QueryIdle
  /\ MoreIdle
  /\ \E pi \in 0..MaxPageIndex, ps \in 0..MaxPageSize,
        rt \in 0..MaxRecords, rf \in 0..MaxFiltered :
       paging = [phase |-> "input", pageIndex |-> pi, pageSize |-> ps,
                 recordsTotal |-> rt, recordsFiltered |-> rf,
                 info |-> NoInfo, target |-> 0, calls |-> <<>>]

ComputePaging ==
  /\ paging.phase = "input"
  /\ paging' = [paging EXCEPT
       !.phase = "computed",
       !.info = getDataTablePaging(paging.pageIndex, paging.pageSize,
                                   paging.recordsTotal,
                                   paging.recordsFiltered)]
  /\ UNCHANGED <<tableVars, query, moreVars>>

\* goToPage(page): onPageIndexChange(next - 1)
CallGoToPage(page) ==
  /\ paging.phase = "computed"
  /\ paging' = [paging EXCEPT
       !.phase = "moved",
       !.target = page,
       !.calls = Append(paging.calls, goToPage(page, paging.info.totalPages))]
  /\ UNCHANGED <<tableVars, query, moreVars>>

NextPaging ==
  \/ ComputePaging
  \/ \E page \in (-1)..MaxTarget : CallGoToPage(page)

SpecPaging == InitPaging /\ [][NextPaging]_vars

(***************************************************************************)
(* buildDataTablesQueryParams on its own.                                  *)
(***************************************************************************)
QuerySearches ==
  {Undefined, Str(<<>>), Str(<<" ">>), Str(<<"a">>), Str(<<" ", "a", " ">>)}
QueryFilterKeys == {"from", "type"}
QueryFilterValues ==
  {Null, Undefined, Str(<<>>), Str(<<" ">>), Str(<<"a", " ">>), Num(0),
   Num(12)}

\* the extraFilters objects: entries with distinct keys, in insertion order
\* (no entry at all also stands for an options object without extraFilters)
QueryExtraFilters ==
  {<<>>}
  \cup {<<<<k, v>>>> : k \in QueryFilterKeys, v \in QueryFilterValues}
  \cup {e \in {<<<<k1, v1>>, <<k2, v2>>>> :
                   k1 \in QueryFilterKeys, k2 \in QueryFilterKeys,
                   v1 \in QueryFilterValues, v2 \in QueryFilterValues} :
          e[1][1] # e[2][1]}

InitQuery ==
  /\ InitTable
  /\ paging = PagingIdle
  /\ MoreIdle
  /\ \E st \in 0..MaxStart, le \in 1..MaxLength, se \in QuerySearches,
        sc \in 0..MaxSortColumn, sd \in {"asc", "desc"},
        ef \in QueryExtraFilters :
       query = [phase |-> "input",
                opts |-> [start |-> st, length |-> le, search |-> se,
                          sortColumn |-> sc, sortDir |-> sd,
                          extraFilters |-> ef],
                params |-> <<>>]

BuildParams ==
  /\ query.phase = "input"
  /\ query' = [query EXCEPT
       !.phase = "built",
       !.params = buildDataTablesQueryParams(query.opts)]
  /\ UNCHANGED <<tableVars, paging, moreVars>>

NextQuery == BuildParams

SpecQuery == InitQuery /\ [][NextQuery]_vars

(***************************************************************************)
(* Properties of useServerDataTable and ServerDataTable (Spec).            *)
(***************************************************************************)
\* the request r was resolved by this step
Resolved(r) == r \in inflight /\ r \notin inflight'
\* this step issued a request
Issues == issued' = issued + 1

StartOf(params) == StrToNum(ParamGet(params, "start"))
SearchOf(params) ==
  IF params # NoRequest /\ ParamHas(params, "search[value]")
  THEN ParamGet(params, "search[value]") ELSE <<>>
FilterOutKeys ==
  {AllSlots[i].outKey : i \in 1..Len(AllSlots)} \ {NoKey}
FiltersOf(params) ==
  [k \in FilterOutKeys |->
     IF params # NoRequest /\ ParamHas(params, k)
     THEN ParamGet(params, k) ELSE <<>>]

\* C1: rows, recordsTotal and recordsFiltered are committed only from the
\* response of the most recently issued request; the response of a request
\* that a later request has superseded is never committed.
C1_OnlyLatestCommits ==
  [][\A r \in inflight :
       (Resolved(r) /\ r # issued)
         => UNCHANGED <<data, recordsTotal, recordsFiltered>>]_vars

\* C2: the resolution (success or failure) of a superseded request changes
\* neither loading nor error.
C2_SupersededIsSilent ==
  [][\A r \in inflight :
       (Resolved(r) /\ r # issued)
         => (loading' = loading /\ error' = error)]_vars

\* C3: a request whose filter parameters differ from those of the request
\* issued before it (the first request carrying a new filter value) has
\* start = 0.
C3_NewFilterStartsAtZero ==
  [][(Issues /\ FiltersOf(lastIssued') # FiltersOf(lastIssued))
       => StartOf(lastIssued') = 0]_vars

\* C4: whenever the committed search term changes, pageIndex is 0 after the
\* same step, and the first request carrying a new search term has start = 0.
C4_SearchCommitResetsPage ==
  [][/\ (search' # search => pageIndex' = 0)
     /\ (Issues /\ SearchOf(lastIssued') # SearchOf(lastIssued))
          => StartOf(lastIssued') = 0]_vars

\* a delayed or immediate commit of a new term has just reset the page the
\* table was rendered on
C4_Witness ==
  /\ search # <<>>
  /\ search # rendered.search
  /\ rendered.pageIndex > 0
  /\ pageIndex = 0

\* C5: handleSort on the active sort column flips the direction and keeps
\* the column, on another column selects it with direction asc; in both
\* cases the filter values and the search term are unchanged and pageIndex
\* becomes 0.
C5_HandleSort ==
  [][\A c \in 0..(Len(Columns) - 1) :
       handleSort(c) =>
         /\ sortColumn' = c
         /\ (sortColumn = c => sortDir' # sortDir)
         /\ (sortColumn # c => sortDir' = "asc")
         /\ filterState' = filterState
         /\ search' = search
         /\ pendingSearch' = pendingSearch
         /\ pageIndex' = 0]_vars

\* the active column has just been flipped from desc to asc on a page other
\* than the first, with a search term typed
C5_Witness ==
  /\ dirty
  /\ rendered.sortColumn = sortColumn
  /\ rendered.sortDir = "desc"
  /\ sortDir = "asc"
  /\ rendered.pageIndex > 0
  /\ pageIndex = 0
  /\ pendingSearch # <<>>

(***************************************************************************)
(* Properties of getDataTablePaging (SpecPaging).                          *)
(***************************************************************************)
Computed == paging.phase \in {"computed", "moved"}

\* C6: for pageSize > 0 and totalForDisplay > 0, currentFrom <= currentTo,
\* also for a pageIndex beyond the last page.
C6_FromAtMostTo ==
  (Computed /\ paging.pageSize > 0 /\ paging.info.totalForDisplay > 0)
    => paging.info.currentFrom <= paging.info.currentTo

\* C7: goToPage(target) calls the page-index setter exactly once, with
\* clamp(target, 1, totalPages) - 1, a value in 0..totalPages - 1.
C7_GoToPageClamps ==
  paging.phase = "moved" =>
    LET tp == paging.info.totalPages
        t  == paging.target
    IN /\ Len(paging.calls) = 1
       /\ paging.calls[1] \in 0..(tp - 1)
       /\ (t < 1 => paging.calls[1] = 0)
       /\ (t > tp => paging.calls[1] = tp - 1)
       /\ (t \in 1..tp => paging.calls[1] = t - 1)

C7_Witness ==
  /\ paging.phase = "moved"
  /\ paging.target < 1
  /\ paging.info.totalPages > 1
  /\ paging.calls = <<0>>

\* C8: totalForDisplay is recordsFiltered when that is non-zero and
\* recordsTotal otherwise; recordsTotal = 57, recordsFiltered = 0,
\* pageIndex = 0, pageSize = 10 give totalForDisplay = 57, totalPages = 6,
\* currentFrom = 1, currentTo = 10.
C8_TotalForDisplay ==
  Computed =>
    /\ (paging.recordsFiltered # 0
          => paging.info.totalForDisplay = paging.recordsFiltered)
    /\ (paging.recordsFiltered = 0
          => paging.info.totalForDisplay = paging.recordsTotal)
    /\ (/\ paging.recordsTotal = 57 /\ paging.recordsFiltered = 0
        /\ paging.pageIndex = 0 /\ paging.pageSize = 10)
         => /\ paging.info.totalForDisplay = 57
            /\ paging.info.totalPages = 6
            /\ paging.info.currentFrom = 1
            /\ paging.info.currentTo = 10

C8_Witness ==
  /\ Computed
  /\ paging.recordsTotal = 57 /\ paging.recordsFiltered = 0
  /\ paging.pageIndex = 0 /\ paging.pageSize = 10
  /\ paging.info.totalForDisplay = 57

\* C9: totalPages >= 1; for pageSize > 0 it is the least number of pages of
\* pageSize rows that hold totalForDisplay rows (1 when there are none); for
\* pageSize <= 0 it is 1.
C9_TotalPages ==
  Computed =>
    LET tp == paging.info.totalPages
        total == paging.info.totalForDisplay
        ps == paging.pageSize
    IN /\ tp >= 1
       /\ (ps <= 0 => tp = 1)
       /\ (total = 0 => tp = 1)
       /\ (ps > 0 /\ total > 0)
            => (tp * ps >= total /\ (tp - 1) * ps < total)

C9_Witness ==
  /\ Computed
  /\ paging.pageSize > 1
  /\ paging.info.totalForDisplay % paging.pageSize # 0
  /\ paging.info.totalPages > 1

(***************************************************************************)
(* Properties of buildDataTablesQueryParams (SpecQuery).                   *)
(***************************************************************************)
IsBlank(str) == \A i \in 1..Len(str) : str[i] = Space

\* t is str without its leading and trailing white space
IsTrimOf(t, str) ==
  /\ t # <<>> => (t[1] # Space /\ t[Len(t)] # Space)
  /\ \E a \in 0..Len(str) :
       /\ a + Len(t) <= Len(str)
       /\ SubSeq(str, a + 1, a + Len(t)) = t
       /\ \A i \in 1..Len(str) :
            (i <= a \/ i > a + Len(t)) => str[i] = Space

\* the entry of extraFilters under key k (at most one)
EntryOf(ef, k) == ef[CHOOSE i \in 1..Len(ef) : ef[i][1] = k][2]
HasEntry(ef, k) == \E i \in 1..Len(ef) : ef[i][1] = k

\* the value is sent: neither null nor undefined, and not blank as a string
IsSent(v) ==
  /\ v.kind \notin {"null", "undefined"}
  /\ (v.kind = "string" => ~IsBlank(v.s))

RequestIdsCoverIssued == issued \in 0..(1 + 2 * MaxEvents)

DrawOf(params) == StrToNum(ParamGet(params, "draw"))

\* C11: each request of a table instance carries a draw value strictly
\* greater than the draw value of the request issued before it.
C11_DrawIncreases ==
  [][(Issues /\ lastIssued # NoRequest)
       => DrawOf(lastIssued') > DrawOf(lastIssued)]_vars

(***************************************************************************)
(* useDebouncedSearch on its own, with its default minLength and delayMs.  *)
(* A step is one handler or timer callback together with the render and    *)
(* the effect runs it causes.  Time passes in ticks of TickMs.             *)
(***************************************************************************)
minLength == 3
delayMs == 2500
TickMs == 1250
DebounceInputs ==
  {<<>>, <<" ">>, <<"a">>, <<"a", " ">>, <<"a", "b">>, <<"a", "b", "c">>}

NoDebounceTimer == [set |-> FALSE, value |-> <<>>, elapsed |-> 0]

\* trimmed.length >= minLength || trimmed.length === 0
commitNow_onlyLong(trimmed) == Len(trimmed) >= minLength
commitNow(trimmed) == Len(trimmed) >= minLength \/ Len(trimmed) = 0

\* one run of the effect: the cleanup of the previous run (clearTimeout),
\* then the body
debounceEffect(d) ==
  LET trimmed == Trim(d.pendingSearch)
  IN IF commitNow(trimmed)
     THEN [d EXCEPT !.search = trimmed,
                    !.calls = Append(@, trimmed),
                    !.timer = NoDebounceTimer]
     ELSE [d EXCEPT !.timer =
             [set |-> TRUE, value |-> trimmed, elapsed |-> 0]]

\* setSearch has changed the state: the host renders again, and the effect
\* runs again when the host passes a new onCommit function on every render
afterCommit(before, d) ==
  IF ~d.stable /\ d.search # before.search THEN debounceEffect(d) ELSE d

\* the start of a step: no onCommit call made yet, the values before the
\* step are remembered
debounceStep(d, op) ==
  [d EXCEPT !.calls = <<>>,
            !.op = op,
            !.prev = [pendingSearch |-> d.pendingSearch,
                      search |-> d.search,
                      timerSet |-> d.timer.set]]

\* the three statements of reset()
resetValues_noCommit(d) ==
  [d EXCEPT !.search = <<>>, !.pendingSearch = <<>>]
resetValues(d) ==
  [d EXCEPT !.search = <<>>, !.pendingSearch = <<>>,
            !.calls = Append(@, <<>>)]

\* the hook is mounted with initialValue "": the first effect run has
\* committed the empty string
InitDebounce ==
  /\ InitTable
  /\ paging = PagingIdle
  /\ query = QueryIdle
  /\ filters = FiltersIdle
  /\ http = HttpIdle
  /\ hooks = HooksIdle
  /\ LateIdle
  /\ \E st \in BOOLEAN :
       debounce = [stable |-> st, pendingSearch |-> <<>>, search |-> <<>>,
                   timer |-> NoDebounceTimer, sinceChange |-> 0,
                   calls |-> << <<>> >>, op |-> "mount",
                   prev |-> [pendingSearch |-> <<>>, search |-> <<>>,
                             timerSet |-> FALSE]]

\* setPendingSearch(v), the render and the effect
DebounceSetPendingSearch(v) ==
  /\ v # debounce.pendingSearch
  /\ LET d1 == [debounceStep(debounce, "input") EXCEPT
                  !.pendingSearch = v, !.sinceChange = 0]
     IN debounce' = afterCommit(d1, debounceEffect(d1))
  /\ UNCHANGED <<tableVars, paging, query, filters, http, hooks,
               lateVars>>

\* the host renders for a reason of its own and passes a new onCommit
DebounceRerender ==
  /\ ~debounce.stable
  /\ debounce' = debounceEffect(debounceStep(debounce, "render"))
  /\ UNCHANGED <<tableVars, paging, query, filters, http, hooks,
               lateVars>>

\* TickMs pass
DebounceTick ==
  /\ LET d1 == debounceStep(debounce, "tick")
     IN debounce' =
          [d1 EXCEPT !.sinceChange = Min(@ + TickMs, delayMs),
                     !.timer.elapsed =
                       IF d1.timer.set THEN Min(@ + TickMs, delayMs) ELSE 0]
  /\ UNCHANGED <<tableVars, paging, query, filters, http, hooks,
               lateVars>>

\* the setTimeout callback, delayMs after the effect run that scheduled it
DebounceTimerFire ==
  /\ debounce.timer.set
  /\ debounce.timer.elapsed >= delayMs
  /\ LET d0 == debounceStep(debounce, "timer")
         d1 == [d0 EXCEPT !.search = d0.timer.value,
                          !.calls = Append(@, d0.timer.value),
                          !.timer = NoDebounceTimer]
     IN debounce' = afterCommit(d0, d1)
  /\ UNCHANGED <<tableVars, paging, query, filters, http, hooks,
               lateVars>>

\* reset(), the render and the effect
DebounceReset ==
  /\ LET d0 == debounceStep(debounce, "reset")
         d1 == resetValues(d0)
     IN debounce' =
          IF d1.pendingSearch # d0.pendingSearch
          THEN debounceEffect([d1 EXCEPT !.sinceChange = 0])
          ELSE afterCommit(d0, d1)
  /\ UNCHANGED <<tableVars, paging, query, filters, http, hooks,
               lateVars>>

NextDebounce ==
  \/ \E v \in DebounceInputs : DebounceSetPendingSearch(v)
  \/ DebounceRerender
  \/ DebounceTick
  \/ DebounceTimerFire
  \/ DebounceReset

SpecDebounce == InitDebounce /\ [][NextDebounce]_vars

(***************************************************************************)
(* Properties of useDebouncedSearch (SpecDebounce).                        *)
(***************************************************************************)
\* the trimmed term is 1 .. minLength - 1 characters long
IsShort(str) == Len(Trim(str)) \in 1..(minLength - 1)
IsLongOrEmpty(str) == Len(Trim(str)) >= minLength \/ Len(Trim(str)) = 0

\* C12: while the trimmed pendingSearch is 1 or 2 characters long, the
\* committed search changes and onCommit is called only when delayMs have
\* passed since the last change of pendingSearch (the trimmed term is then
\* committed), or when pendingSearch changes to a term of trimmed length
\* >= minLength or 0; such a change commits the trimmed term in the same
\* step, whatever time has passed.
C12_DebounceHolds ==
  [][LET d == debounce
         e == debounce'
     IN /\ (IsShort(d.pendingSearch)
              /\ (e.search # d.search \/ e.calls # <<>>))
             => \/ /\ e.pendingSearch = d.pendingSearch
                   /\ d.sinceChange >= delayMs
                   /\ e.search = Trim(d.pendingSearch)
                   /\ e.calls = <<Trim(d.pendingSearch)>>
                \/ /\ e.pendingSearch # d.pendingSearch
                   /\ IsLongOrEmpty(e.pendingSearch)
        /\ (e.pendingSearch # d.pendingSearch
              /\ IsLongOrEmpty(e.pendingSearch))
             => /\ e.search = Trim(e.pendingSearch)
                /\ e.calls # <<>>
                /\ \A i \in 1..Len(e.calls) :
                     e.calls[i] = Trim(e.pendingSearch)]_vars

\* a short term was pending with its commit scheduled, then a term of
\* minLength characters was typed and committed before any time passed
C12_Witness ==
  /\ debounce.op = "input"
  /\ IsShort(debounce.prev.pendingSearch)
  /\ debounce.prev.timerSet
  /\ debounce.prev.search = <<>>
  /\ debounce.search = <<"a", "b", "c">>
  /\ debounce.sinceChange = 0

\* C13: reset() sets pendingSearch and the committed search to "" and calls
\* onCommit with "", whatever the values before and whether or not a commit
\* was scheduled.
C13_Reset ==
  [][DebounceReset =>
       /\ debounce'.pendingSearch = <<>>
       /\ debounce'.search = <<>>
       /\ debounce'.calls # <<>>
       /\ \A i \in 1..Len(debounce'.calls) : debounce'.calls[i] = <<>>]_vars

\* reset() was called while a short term was pending, its commit scheduled
\* and an earlier term committed
C13_Witness ==
  /\ debounce.op = "reset"
  /\ IsShort(debounce.prev.pendingSearch)
  /\ debounce.prev.timerSet
  /\ debounce.prev.search # <<>>
  /\ debounce.pendingSearch = <<>>
  /\ debounce.search = <<>>
  /\ ~debounce.timer.set

(***************************************************************************)
(* Properties of handleResetFilters (Spec).                                *)
(***************************************************************************)
\* every filter value is empty, no search term is pending or committed and
\* the first page is selected
IsReset ==
  /\ \A k \in DOMAIN filterState : filterState[k] = <<>>
  /\ search = <<>>
  /\ pendingSearch = <<>>
  /\ pageIndex = 0

\* the request carries no search[value], no filter parameter and start = 0
IsResetRequest(params) ==
  /\ ~ParamHas(params, "search[value]")
  /\ \A k \in FilterOutKeys : ~ParamHas(params, k)
  /\ StartOf(params) = 0

\* C14: handleResetFilters empties every key of the filter state, clears
\* the pending and the committed search and sets pageIndex to 0 in one step
\* that issues no request and keeps the sort column and direction; a
\* request issued from the reset state carries no search[value], no filter
\* parameter and start = 0.
C14_ResetFilters ==
  [][/\ handleResetFilters =>
          /\ IsReset'
          /\ DOMAIN filterState' = DOMAIN filterState
          /\ UNCHANGED <<sortColumn, sortDir, issued, lastIssued>>
     /\ (IsReset /\ Issues) =>
          /\ IsResetRequest(lastIssued')
          /\ UNCHANGED <<sortColumn, sortDir>>]_vars

\* handleResetFilters has just run with a filter value typed and sent and a
\* short search term pending (its delayed commit is still scheduled); the
\* render that issues the next request is due
C14_Witness ==
  /\ dirty
  /\ IsReset
  /\ DOMAIN filterState # {}
  /\ \E i \in 1..Len(rendered.filterDeps) : rendered.filterDeps[i] # <<>>
  /\ timer.set
  /\ timer.value # <<>>
  /\ lastIssued # NoRequest
  /\ ~IsResetRequest(lastIssued)

(***************************************************************************)
(* getFilterStateFromColumns on its own: one column whose filter is of any *)
(* kind, with each query key declared or not, and any typed values.        *)
(***************************************************************************)
FilterColumn(id, kind, key, key1, key2) ==
  [id |-> id, sortable |-> FALSE, kind |-> kind, queryKey |-> key,
   minQueryKey |-> IF kind = "number-range" THEN key1 ELSE NoKey,
   maxQueryKey |-> IF kind = "number-range" THEN key2 ELSE NoKey,
   fromQueryKey |-> IF kind = "date-range" THEN key1 ELSE NoKey,
   toQueryKey |-> IF kind = "date-range" THEN key2 ELSE NoKey]

FilterColumns ==
  {FilterColumn("fromAddress", "text", k, NoKey, NoKey) :
     k \in {"from", NoKey}}
  \cup {FilterColumn("type", "select", k, NoKey, NoKey) :
          k \in {"txType", NoKey}}
  \cup {FilterColumn("amount", "number-range", NoKey, k1, k2) :
          k1 \in {"minAmount", NoKey}, k2 \in {"maxAmount", NoKey}}
  \cup {FilterColumn("createdAt", "date-range", NoKey, k1, k2) :
          k1 \in {"dateFrom", NoKey}, k2 \in {"dateTo", NoKey}}

StateKeysOf(col) == {Slots(col)[i].stateKey : i \in 1..Len(Slots(col))}

InitFilters ==
  /\ InitTable
  /\ paging = PagingIdle
  /\ query = QueryIdle
  /\ debounce = DebounceIdle
  /\ http = HttpIdle
  /\ hooks = HooksIdle
  /\ LateIdle
  /\ \E col \in FilterColumns :
       \E fs \in [StateKeysOf(col) -> FilterInputs] :
         filters = [phase |-> "input", column |-> col, filterState |-> fs,
                    extraFilters |-> <<>>]

\* useMemo(() => getFilterStateFromColumns(columnsWithState))
DeriveFilters ==
  /\ filters.phase = "input"
  /\ filters' = [filters EXCEPT
       !.phase = "derived",
       !.extraFilters =
         ExtraFiltersFrom(filters.filterState, Slots(filters.column), <<>>)]
  /\ UNCHANGED <<tableVars, paging, query, debounce, http, hooks,
               lateVars>>

NextFilters == DeriveFilters

SpecFilters == InitFilters /\ [][NextFilters]_vars

(***************************************************************************)
(* Properties of getFilterStateFromColumns (SpecFilters).                  *)
(***************************************************************************)
\* C15: for every value of a column filter, of any kind: when the trimmed
\* value is not empty, extraFilters holds it under the declared query key,
\* or under the derived key (the column id, or <columnId>:min, :max, :from,
\* :to) when no key is declared; when it is empty, extraFilters has no entry
\* under that key.
C15_ExtraFilters ==
  filters.phase = "derived" =>
    \A i \in 1..Len(Slots(filters.column)) :
      LET key == Slots(filters.column)[i].stateKey
          trimmed == Trim(filters.filterState[key])
      IN IF trimmed # <<>>
         THEN /\ HasEntry(filters.extraFilters, key)
              /\ EntryOf(filters.extraFilters, key) = Str(trimmed)
         ELSE ~HasEntry(filters.extraFilters, key)

(***************************************************************************)
(* httpClient: registerUnauthorizedHandler, apiRequest and                 *)
(* mapApiErrorToMessage.  A request is sent, the handler slot may be       *)
(* written while it is in flight, the response (or a network failure)      *)
(* settles it, and a caller maps the raised error to a message.            *)
(***************************************************************************)
Bearer == <<"B", "e", "a", "r", "e", "r", " ">>
StartsWith(s, prefix) ==
  Len(s) >= Len(prefix) /\ SubSeq(s, 1, Len(prefix)) = prefix

\* the token option of a request: absent, null, empty, plain or prefixed
Tokens == {Undefined, Null, Str(<<>>), Str(<<"t">>), Str(Bearer \o <<"t">>)}
\* JavaScript truthiness of a token
Truthy(v) == v.kind = "string" /\ v.s # <<>>

\* the unauthorized handler slot: null, a handler that returns, or one that
\* throws
NoHandler == "null"
Handlers == {NoHandler, "returns", "throws"}

Statuses == {200, 201, 204, 299, 304, 400, 401, 403, 404, 429, 500, 503}

NoOutcome == [kind |-> "none", value |-> "", api |-> FALSE, status |-> 0]
\* return data (the parsed body, or undefined)
Returned(value) ==
  [kind |-> "returned", value |-> value, api |-> FALSE, status |-> 0]
\* throw new ApiError(..., {status, ...})
RaisedApiError(status) ==
  [kind |-> "raised", value |-> "", api |-> TRUE, status |-> status]
\* fetch rejects (network failure): the rejection is not an ApiError
RaisedOther ==
  [kind |-> "raised", value |-> "", api |-> FALSE, status |-> 0]

\* finalHeaders.Authorization ("" when the header is not set)
authorizationOf(token) ==
  IF Truthy(token)
  THEN IF StartsWith(token.s, Bearer) THEN token.s ELSE Bearer \o token.s
  ELSE <<>>

\* response.ok
responseOk_below400(status) == status < 400
responseOk(status) == status \in 200..299

\* response.status === 401 && token && unauthorizedHandler
callsHandler_anyToken(status, token, handler) ==
  status = 401 /\ handler # NoHandler
callsHandler(status, token, handler) ==
  status = 401 /\ Truthy(token) /\ handler # NoHandler

\* what apiRequest does once the response has arrived: the calls it makes,
\* in order, and how it ends
apiRequestSettle(token, handler, status, jsonOk) ==
  IF ~responseOk(status)
  THEN [events |-> <<"response.text">>
                   \o (IF callsHandler(status, token, handler)
                       THEN IF handler = "throws"
                            THEN <<"unauthorizedHandler", "catch">>
                            ELSE <<"unauthorizedHandler">>
                       ELSE <<>>)
                   \o <<"throw">>,
        outcome |-> RaisedApiError(status)]
  ELSE IF status = 204
  THEN [events |-> <<"return">>, outcome |-> Returned("undefined")]
  ELSE [events |-> <<"response.json", "return">>,
        outcome |-> Returned(IF jsonOk THEN "data" ELSE "undefined")]

\* the message options of mapApiErrorToMessage: a message is left out,
\* empty, or given
NoMessage == "<undefined>"
MessageOptions ==
  [defaultMessage : {"default"},
   unauthorizedMessage : {NoMessage, "", "unauthorized"},
   badRequestMessage : {NoMessage, "", "badRequest"},
   notFoundMessage : {NoMessage, "", "notFound"},
   rateLimitMessage : {NoMessage, "", "rateLimit"},
   serverErrorMessage : {NoMessage, "", "serverError"}]
\* the options the reporting hooks pass
ReportingOptions ==
  [defaultMessage |-> "default", unauthorizedMessage |-> NoMessage,
   badRequestMessage |-> NoMessage, notFoundMessage |-> NoMessage,
   rateLimitMessage |-> "rateLimit", serverErrorMessage |-> "serverError"]
\* JavaScript truthiness of an optional message
Given(message) == message # NoMessage /\ message # ""

mapApiErrorToMessage_only500(err, options) ==
  IF ~err.api THEN options.defaultMessage
  ELSE IF err.status = 400 /\ Given(options.badRequestMessage)
  THEN options.badRequestMessage
  ELSE IF err.status = 401 /\ Given(options.unauthorizedMessage)
  THEN options.unauthorizedMessage
  ELSE IF err.status = 404 /\ Given(options.notFoundMessage)
  THEN options.notFoundMessage
  ELSE IF err.status = 429 /\ Given(options.rateLimitMessage)
  THEN options.rateLimitMessage
  ELSE IF err.status = 500 /\ Given(options.serverErrorMessage)
  THEN options.serverErrorMessage
  ELSE options.defaultMessage
mapApiErrorToMessage(err, options) ==
  IF ~err.api THEN options.defaultMessage
  ELSE IF err.status = 400 /\ Given(options.badRequestMessage)
  THEN options.badRequestMessage
  ELSE IF err.status = 401 /\ Given(options.unauthorizedMessage)
  THEN options.unauthorizedMessage
  ELSE IF err.status = 404 /\ Given(options.notFoundMessage)
  THEN options.notFoundMessage
  ELSE IF err.status = 429 /\ Given(options.rateLimitMessage)
  THEN options.rateLimitMessage
  ELSE IF err.status >= 500 /\ Given(options.serverErrorMessage)
  THEN options.serverErrorMessage
  ELSE options.defaultMessage

\* the module is loaded: no handler is registered, no request made
InitHttp ==
  /\ InitTable
  /\ paging = PagingIdle
  /\ query = QueryIdle
  /\ debounce = DebounceIdle
  /\ filters = FiltersIdle
  /\ hooks = HooksIdle
  /\ LateIdle
  /\ http = [phase |-> "loaded", handler |-> NoHandler, token |-> Undefined,
             authorization |-> <<>>, status |-> 0, jsonOk |-> FALSE,
             events |-> <<>>, outcome |-> NoOutcome,
             options |-> ReportingOptions, message |-> NoMessage]

\* registerUnauthorizedHandler(handler), before a request or while it is in
\* flight
RegisterUnauthorizedHandler(handler) ==
  /\ http.phase \in {"loaded", "sent"}
  /\ handler # http.handler
  /\ http' = [http EXCEPT !.handler = handler]
  /\ UNCHANGED <<tableVars, paging, query, debounce, filters, hooks,
               lateVars>>

\* apiRequest up to the await of fetch
ApiRequestSend(token) ==
  /\ http.phase = "loaded"
  /\ http' = [http EXCEPT !.phase = "sent", !.token = token,
                          !.authorization = authorizationOf(token)]
  /\ UNCHANGED <<tableVars, paging, query, debounce, filters, hooks,
               lateVars>>

\* the response arrives: the rest of apiRequest
ApiRequestReceive(status, jsonOk) ==
  /\ http.phase = "sent"
  /\ LET settled == apiRequestSettle(http.token, http.handler, status, jsonOk)
     IN http' = [http EXCEPT !.phase = "settled", !.status = status,
                             !.jsonOk = jsonOk,
                             !.events = settled.events,
                             !.outcome = settled.outcome]
  /\ UNCHANGED <<tableVars, paging, query, debounce, filters, hooks,
               lateVars>>

\* fetch rejects
ApiRequestNetworkFailure ==
  /\ http.phase = "sent"
  /\ http' = [http EXCEPT !.phase = "settled", !.events = <<"throw">>,
                          !.outcome = RaisedOther]
  /\ UNCHANGED <<tableVars, paging, query, debounce, filters, hooks,
               lateVars>>

\* the caller's catch block: mapApiErrorToMessage(err, options)
MapError(options) ==
  /\ http.phase = "settled"
  /\ http.outcome.kind = "raised"
  /\ http' = [http EXCEPT !.phase = "mapped", !.options = options,
                          !.message = mapApiErrorToMessage(http.outcome,
                                                           options)]
  /\ UNCHANGED <<tableVars, paging, query, debounce, filters, hooks,
               lateVars>>

NextHttp ==
  \/ \E handler \in Handlers : RegisterUnauthorizedHandler(handler)
  \/ \E token \in Tokens : ApiRequestSend(token)
  \/ \E status \in Statuses, jsonOk \in BOOLEAN :
       ApiRequestReceive(status, jsonOk)
  \/ ApiRequestNetworkFailure
  \/ \E options \in MessageOptions : MapError(options)

SpecHttp == InitHttp /\ [][NextHttp]_vars

(***************************************************************************)
(* Properties of apiRequest and mapApiErrorToMessage (SpecHttp).           *)
(***************************************************************************)
\* a response has arrived and apiRequest has ended
Settled == http.phase \in {"settled", "mapped"} /\ http.status # 0
\* the positions of a call in the calls apiRequest made
Positions(events, e) == {i \in 1..Len(events) : events[i] = e}

\* C16: on a 401 response to a request with a token, with a handler
\* registered, the handler is called exactly once, before the ApiError is
\* raised, and the ApiError with status 401 is raised also when the handler
\* throws; without a token the handler is not called.
C16_UnauthorizedHandler ==
  (Settled /\ http.status = 401) =>
    /\ http.outcome = RaisedApiError(401)
    /\ (Truthy(http.token) /\ http.handler # NoHandler) =>
         /\ Cardinality(Positions(http.events, "unauthorizedHandler")) = 1
         /\ \A i \in Positions(http.events, "unauthorizedHandler"),
               j \in Positions(http.events, "throw") : i < j
    /\ ~Truthy(http.token) =>
         Positions(http.events, "unauthorizedHandler") = {}

\* a handler that throws was called on a 401 with a token, and the ApiError
\* was raised after it
C16_Witness ==
  /\ Settled
  /\ http.status = 401
  /\ http.token = Str(<<"t">>)
  /\ http.handler = "throws"
  /\ http.events = <<"response.text", "unauthorizedHandler", "catch", "throw">>
  /\ http.outcome = RaisedApiError(401)

\* C17: a response whose status is not 2xx ends in a raised ApiError with
\* that status; a 204 response returns undefined without raising; a 2xx
\* response whose body is not JSON returns undefined without raising.
C17_Outcomes ==
  Settled =>
    /\ http.status \notin 200..299 => http.outcome = RaisedApiError(http.status)
    /\ http.status = 204 => http.outcome = Returned("undefined")
    /\ (http.status \in 200..299 /\ ~http.jsonOk)
         => http.outcome = Returned("undefined")
    /\ http.status \in 200..299 => Positions(http.events, "throw") = {}

\* a 304 has raised an ApiError
C17_Witness ==
  /\ Settled
  /\ http.status = 304
  /\ http.outcome = RaisedApiError(304)
  /\ http.events = <<"response.text", "throw">>

\* the message an error is mapped to when every optional message is given
\* whenever its status occurs
TableMessage(err, options) ==
  IF ~err.api THEN options.defaultMessage
  ELSE IF err.status = 400 THEN options.badRequestMessage
  ELSE IF err.status = 401 THEN options.unauthorizedMessage
  ELSE IF err.status = 404 THEN options.notFoundMessage
  ELSE IF err.status = 429 THEN options.rateLimitMessage
  ELSE IF err.status >= 500 THEN options.serverErrorMessage
  ELSE options.defaultMessage

\* C18 as stated: mapApiErrorToMessage returns the bad-request message for
\* 400, the unauthorized message for 401, the not-found message for 404, the
\* rate-limit message for 429, the server-error message for every status
\* >= 500, and the default message for every other status and for every
\* error that is not an ApiError.
C18_StatusTable ==
  http.phase = "mapped" =>
    http.message = TableMessage(http.outcome, http.options)

\* C18 as amended: the message of the status is returned when the options
\* give a non-empty one; the default message is returned when they do not,
\* for every other status and for every error that is not an ApiError.
C18_StatusTableWhenGiven ==
  http.phase = "mapped" =>
    LET expected == TableMessage(http.outcome, http.options)
    IN /\ Given(expected) => http.message = expected
       /\ ~Given(expected) => http.message = http.options.defaultMessage

\* a 503 was mapped to the server-error message by options that give no
\* bad-request message
C18_Witness ==
  /\ http.phase = "mapped"
  /\ http.outcome = RaisedApiError(503)
  /\ http.options.badRequestMessage = NoMessage
  /\ http.options.serverErrorMessage = "serverError"
  /\ http.message = "serverError"

(***************************************************************************)
(* The data hooks under a changing auth token: useServerDataTable as       *)
(* ServerDataTable composes it (default mapErrorMessage, token of the auth *)
(* context), useTopTransactionsPerUser, useTransactionsVolume and          *)
(* useTopUsersLeaderboard.  One hook instance is followed at a time.       *)
(***************************************************************************)
HookKinds == {"table", "topTransactions", "volume", "topUsers"}
IsReporting(kind) == kind \in {"topTransactions", "volume", "topUsers"}
NoToken == "null"
HookTokens == {NoToken, "t"}
maxPages == 20           \* useTransactionsVolume: pages fetched at most
MaxHookEvents == 2       \* token and dependency changes in one behaviour
\* a request is named by the effect run that made it (the mount is run 1);
\* the pages useTransactionsVolume fetches in one run share the name
HookRequestIds == 1..(1 + MaxHookEvents)

\* the guard of the effect before it starts a request
fetchAllowed_noTokenGuard(kind, token) == TRUE
fetchAllowed(kind, token) ==
  IF IsReporting(kind)
  THEN token # NoToken       \* if (!token) { ...; return; }
  ELSE TRUE                  \* if (!endpoint) return;  (endpoint is set)

\* the catch block stores a message for this error
storesError_also401(kind, err) == TRUE
storesError(kind, err) ==
  IF IsReporting(kind)
  THEN ~(err.api /\ err.status = 401)  \* if (ApiError && 401) return;
  ELSE TRUE

\* the message the catch block stores
errorMessageOf(kind, err) ==
  IF IsReporting(kind)
  THEN mapApiErrorToMessage(err, ReportingOptions)
  ELSE defaultMapErrorMessage(err)

\* the hook drops the outcome of a request whose effect was cleaned up
\* (the reporting hooks' `cancelled`; the AbortController of the table hook
\* is aborted but its signal is not used)
dropsOutcome_never(kind, request) == FALSE
dropsOutcome(kind, request) == IsReporting(kind) /\ request.cancelled

\* GlobalLoadingProvider: the two updaters of its count
startLoading(count) == count + 1
stopLoading(count) == IF count > 0 THEN count - 1 ELSE 0
isLoading(count) == count > 0

\* load calls startLoading before its first request (reporting hooks only)
startsLoading(kind) == IsReporting(kind)

\* the finally block of load calls stopLoading for this request's load
stopsLoading_unlessCancelled(kind, request) ==
  IsReporting(kind) /\ ~request.cancelled
stopsLoading(kind, request) == IsReporting(kind)

\* useTransactionsVolume: rows asked per page, and the length parameter of
\* a hook's request (NoLength: the hook sends none in this model)
volumePageSize == 100
NoLength == 0
lengthOf(kind) == IF kind = "volume" THEN volumePageSize ELSE NoLength

\* useTransactionsVolume's loop goes on to another page: the page was full
\* and the page counter stays below maxPages
continues_alsoAfterShortPage(full, page) == page + 1 < maxPages
continues(full, page) == full /\ page + 1 < maxPages

\* the cleanup of an effect run: cancelled = true (controller.abort())
hookCleanup(requests) == {[r EXCEPT !.cancelled = TRUE] : r \in requests}

\* one run of the hook's effect: the cleanup of the previous run, then the
\* body
hookEffect(h) ==
  LET cleaned == hookCleanup(h.requests)
  IN IF fetchAllowed(h.kind, h.token)
     THEN [h EXCEPT !.loading = TRUE,
                    !.error = NoError,
                    !.count = IF startsLoading(h.kind)
                              THEN startLoading(@) ELSE @,
                    !.requests = cleaned \cup
                      {[id |-> h.nEvents + 1, cancelled |-> FALSE,
                        page |-> 0, start |-> 0, length |-> lengthOf(h.kind),
                        token |-> h.token]}]
     ELSE [h EXCEPT !.data = "empty",
                    !.error = NoError,
                    !.loading = FALSE,
                    !.requests = cleaned]

\* the hook's useState values, before the first effect has run
InitHooks ==
  /\ InitTable
  /\ paging = PagingIdle
  /\ query = QueryIdle
  /\ debounce = DebounceIdle
  /\ filters = FiltersIdle
  /\ http = HttpIdle
  /\ LateIdle
  /\ \E kind \in HookKinds, token \in HookTokens :
       hooks = [kind |-> kind, mounted |-> FALSE, token |-> token,
                data |-> "empty", loading |-> FALSE, error |-> NoError,
                requests |-> {}, nEvents |-> 0, unmounted |-> FALSE,
                count |-> 0]

HookMount ==
  /\ ~hooks.mounted
  /\ hooks' = hookEffect([hooks EXCEPT !.mounted = TRUE])
  /\ UNCHANGED <<tableVars, paging, query, debounce, filters, http,
               lateVars>>

\* login or logout: the token of the auth context changes
HookSetToken(token) ==
  /\ hooks.mounted
  /\ ~hooks.unmounted
  /\ hooks.nEvents < MaxHookEvents
  /\ token # hooks.token
  /\ hooks' = hookEffect([hooks EXCEPT !.token = token,
                                        !.nEvents = @ + 1])
  /\ UNCHANGED <<tableVars, paging, query, debounce, filters, http,
               lateVars>>

\* another dependency of the effect changes (range, typeFilter, page, ...)
HookRefetch ==
  /\ hooks.mounted
  /\ ~hooks.unmounted
  /\ hooks.nEvents < MaxHookEvents
  /\ hooks' = hookEffect([hooks EXCEPT !.nEvents = @ + 1])
  /\ UNCHANGED <<tableVars, paging, query, debounce, filters, http,
               lateVars>>

\* the component using the hook is unmounted: the effect's cleanup runs
HookUnmount ==
  /\ hooks.mounted
  /\ ~hooks.unmounted
  /\ hooks' = [hooks EXCEPT !.unmounted = TRUE,
                            !.requests = hookCleanup(@)]
  /\ UNCHANGED <<tableVars, paging, query, debounce, filters, http,
               lateVars>>

HookRequest(id) == CHOOSE r \in hooks.requests : r.id = id

\* the count of GlobalLoadingProvider after the finally block of a load
countAfter(request) ==
  IF stopsLoading(hooks.kind, request)
  THEN stopLoading(hooks.count) ELSE hooks.count

\* a request succeeds; full: the page holds pageSize rows (only
\* useTransactionsVolume looks at it and then asks for the next page)
HookResolveOk(id, full) ==
  /\ \E r \in hooks.requests : r.id = id
  /\ (full => hooks.kind = "volume")
  /\ LET r == HookRequest(id)
         rest == hooks.requests \ {r}
     IN hooks' =
          IF dropsOutcome(hooks.kind, r)
          THEN [hooks EXCEPT !.requests = rest, !.count = countAfter(r)]
          ELSE IF continues(full, r.page)
          THEN [hooks EXCEPT !.requests = rest \cup
                               {[r EXCEPT !.page = @ + 1,
                                          !.start = @ + volumePageSize]}]
          ELSE [hooks EXCEPT !.requests = rest,
                             !.data = "rows",
                             !.loading = FALSE,
                             !.count = countAfter(r)]
  /\ UNCHANGED <<tableVars, paging, query, debounce, filters, http,
               lateVars>>

\* a request fails
HookResolveFail(id, err) ==
  /\ \E r \in hooks.requests : r.id = id
  /\ LET r == HookRequest(id)
         rest == hooks.requests \ {r}
     IN hooks' =
          IF dropsOutcome(hooks.kind, r)
          THEN [hooks EXCEPT !.requests = rest, !.count = countAfter(r)]
          ELSE IF storesError(hooks.kind, err)
          THEN [hooks EXCEPT !.requests = rest,
                             !.error = errorMessageOf(hooks.kind, err),
                             !.loading = FALSE,
                             !.count = countAfter(r)]
          ELSE [hooks EXCEPT !.requests = rest, !.loading = FALSE,
                             !.count = countAfter(r)]
  /\ UNCHANGED <<tableVars, paging, query, debounce, filters, http,
               lateVars>>

NextHooks ==
  \/ HookMount
  \/ \E token \in HookTokens : HookSetToken(token)
  \/ HookRefetch
  \/ HookUnmount
  \/ \E id \in HookRequestIds, full \in BOOLEAN : HookResolveOk(id, full)
  \/ \E id \in HookRequestIds, err \in Failures : HookResolveFail(id, err)

SpecHooks == InitHooks /\ [][NextHooks]_vars

(***************************************************************************)
(* Properties of the data hooks (SpecHooks).                               *)
(***************************************************************************)
Unauthorized == [api |-> TRUE, status |-> 401]

\* C19: when a request of a data hook fails with status 401, the hook stores
\* no error message for it: error is left as it was, and it is null when
\* the request was the hook's current one; for the table hook with the
\* default error mapping of ServerDataTable and for the three reporting
\* hooks.
C19_NoLocalErrorOn401 ==
  [][\A id \in HookRequestIds :
       HookResolveFail(id, Unauthorized) =>
         /\ hooks'.error = hooks.error
         /\ ~HookRequest(id).cancelled => hooks'.error = NoError]_vars

\* C20: while no auth token is available no data hook issues a request: no
\* request was made without a token, and a mounted hook without a token has
\* empty data, loading = false and error = null.
C20_NoTokenNoFetch ==
  /\ \A r \in hooks.requests : r.token # NoToken
  /\ (hooks.mounted /\ hooks.token = NoToken) =>
       /\ hooks.data = "empty"
       /\ ~hooks.loading
       /\ hooks.error = NoError

(***************************************************************************)
(* Properties of a failed table fetch (Spec).                              *)
(***************************************************************************)
\* C21: when the most recently issued request fails, error becomes the
\* message the error is mapped to, loading becomes false, and the rows,
\* recordsTotal and recordsFiltered keep the values of the last successful
\* fetch.
C21_FailureKeepsRows ==
  [][\A id \in RequestIds, err \in Failures :
       (id = issued /\ id \in inflight /\ error' # NoError
          /\ ResolveFail(id, err)) =>
         /\ error' = defaultMapErrorMessage(err)
         /\ error' # NoError
         /\ loading' = FALSE
         /\ UNCHANGED <<data, recordsTotal, recordsFiltered>>]_vars

\* rows of an earlier successful fetch are shown together with the error of
\* the latest request, and nothing is in flight
C21_Witness ==
  /\ error # NoError
  /\ ~loading
  /\ data # 0
  /\ data < issued
  /\ recordsTotal > 0
  /\ inflight = {}
  /\ ~dirty

(***************************************************************************)
(* The page items of DataTableShell on their own: totalPages is a page     *)
(* count getDataTablePaging can produce (at least 1), currentPage any page *)
(* number, also one outside 1..totalPages.                                 *)
(***************************************************************************)
MaxTotalPages == 12

PageItemOf(page) == [type |-> "page", page |-> page, key |-> ""]
EllipsisOf(key) == [type |-> "ellipsis", page |-> 0, key |-> key]
\* for (let page = from; page <= to; page++) addPage(page)
PagesFromTo(from, to) == [i \in 1..(to - from + 1) |-> PageItemOf(from + i - 1)]

\* safeCurrentPage <= 4
nearStart_upTo5(current) == current <= 5
nearStart(current) == current <= 4

\* the pageItems memo of DataTableShell
pageItems(currentPage, totalPagesProp) ==
  LET safeTotal == IF totalPagesProp > 0 THEN totalPagesProp ELSE 1
      safeCurrent == Min(Max(currentPage, 1), safeTotal)
  IN IF safeTotal <= 7
     THEN PagesFromTo(1, safeTotal)
     ELSE IF nearStart(safeCurrent)
     THEN PagesFromTo(1, 5) \o <<EllipsisOf("end"), PageItemOf(safeTotal)>>
     ELSE IF safeCurrent >= safeTotal - 3
     THEN <<PageItemOf(1), EllipsisOf("start")>>
          \o PagesFromTo(safeTotal - 4, safeTotal)
     ELSE <<PageItemOf(1), EllipsisOf("start")>>
          \o PagesFromTo(safeCurrent - 1, safeCurrent + 1)
          \o <<EllipsisOf("end"), PageItemOf(safeTotal)>>

InitPager ==
  /\ InitTable
  /\ paging = PagingIdle
  /\ query = QueryIdle
  /\ debounce = DebounceIdle
  /\ filters = FiltersIdle
  /\ http = HttpIdle
  /\ hooks = HooksIdle
  /\ auth = AuthIdle
  /\ \E current \in 0..(MaxTotalPages + 1), total \in 1..MaxTotalPages :
       pager = [phase |-> "input", currentPage |-> current,
                totalPages |-> total, items |-> <<>>]

RenderPageItems ==
  /\ pager.phase = "input"
  /\ pager' = [pager EXCEPT
       !.phase = "rendered",
       !.items = pageItems(pager.currentPage, pager.totalPages)]
  /\ UNCHANGED <<tableVars, paging, query, debounce, filters, http, hooks,
                 auth>>

NextPager == RenderPageItems

SpecPager == InitPager /\ [][NextPager]_vars

(***************************************************************************)
(* Properties of the page items (SpecPager).                               *)
(***************************************************************************)
\* the items as numbers: a page is its number, an ellipsis is 0
ItemNumbers(items) ==
  [i \in 1..Len(items) |->
     IF items[i].type = "page" THEN items[i].page ELSE 0]
Range(from, to) == [i \in 1..(to - from + 1) |-> from + i - 1]

\* C22: for totalPages <= 7 the items are the pages 1..totalPages; for
\* more pages they are 1..5, ellipsis, last when currentPage <= 4; 1,
\* ellipsis, last-4..last when currentPage >= totalPages - 3; and 1,
\* ellipsis, current-1, current, current+1, ellipsis, last otherwise.  For
\* 10 pages: page 1 gives 1,2,3,4,5,e,10, page 5 gives 1,e,4,5,6,e,10 and
\* page 10 gives 1,e,6,7,8,9,10.
C22_PageItems ==
  pager.phase = "rendered" =>
    LET total == pager.totalPages
        current == pager.currentPage
        shown == ItemNumbers(pager.items)
    IN /\ total <= 7 => shown = Range(1, total)
       /\ (total > 7 /\ current <= 4)
            => shown = Range(1, 5) \o <<0, total>>
       /\ (total > 7 /\ current >= total - 3)
            => shown = <<1, 0>> \o Range(total - 4, total)
       /\ (total > 7 /\ current > 4 /\ current < total - 3)
            => shown = <<1, 0, current - 1, current, current + 1, 0, total>>
       /\ (total = 10 /\ current = 1) => shown = <<1, 2, 3, 4, 5, 0, 10>>
       /\ (total = 10 /\ current = 5) => shown = <<1, 0, 4, 5, 6, 0, 10>>
       /\ (total = 10 /\ current = 10) => shown = <<1, 0, 6, 7, 8, 9, 10>>

\* page 5 of 10 is shown with an ellipsis on both sides
C22_Witness ==
  /\ pager.phase = "rendered"
  /\ pager.totalPages = 10
  /\ pager.currentPage = 5
  /\ ItemNumbers(pager.items) = <<1, 0, 4, 5, 6, 0, 10>>


\* ------------------------------------------------------------------------
\* Session storage and AuthProvider (authStorage.ts, useReporting.ts 460-484)
\* ------------------------------------------------------------------------

\* Largest clock value (seconds) of a behaviour.
MaxClock == 2

\* A JWT expiry claim as JSON.parse delivers it: missing, a string or a number.
NoExpClaim == [kind |-> "undefined", n |-> 0]
StringExpClaim == [kind |-> "string", n |-> 0]
NumberExpClaim(n) == [kind |-> "number", n |-> n]

\* A token value.  parts is the number of "."-separated parts, decodes tells
\* whether atob and JSON.parse of the second part succeed, exp is the claim.
NullToken ==
  [kind |-> "null", empty |-> FALSE, parts |-> 0, decodes |-> FALSE,
   exp |-> NoExpClaim]
EmptyToken ==
  [kind |-> "string", empty |-> TRUE, parts |-> 1, decodes |-> FALSE,
   exp |-> NoExpClaim]
TokenOf(parts, decodes, exp) ==
  [kind |-> "string", empty |-> FALSE, parts |-> parts, decodes |-> decodes,
   exp |-> exp]
AuthTokens ==
  {EmptyToken, TokenOf(1, FALSE, NoExpClaim), TokenOf(3, FALSE, NoExpClaim),
   TokenOf(3, TRUE, NoExpClaim), TokenOf(3, TRUE, StringExpClaim)}
    \cup {TokenOf(3, TRUE, NumberExpClaim(n)) : n \in 0..(MaxClock + 1)}

\* !token of JavaScript: null and the empty string are falsy.
FalsyToken(token) == token.kind = "null" \/ token.empty

NullExp == [kind |-> "null", n |-> 0]

decodeJwtExp(token) ==
  IF token.parts < 2 THEN NullExp
  ELSE IF ~token.decodes THEN NullExp
  ELSE IF token.exp.kind = "number" THEN token.exp
  ELSE NullExp

isTokenExpired(token, now) ==
  LET exp == decodeJwtExp(token) IN
    IF exp.kind = "null" \/ exp.n = 0 THEN FALSE ELSE exp.n <= now

\* Users and their stored form: JSON.stringify of { username }.
NullUser == <<>>
AuthUsers == {<<"a">>, <<"b">>}
NoItem == <<>>
JSONstringify(user) == <<"{", "username", ":">> \o user \o <<"}">>
JSONparse(text) == SubSeq(text, 4, Len(text) - 1)

EmptyStorage == [authToken |-> NullToken, authUser |-> NoItem]

\* loadAuthToken: the returned token and the storage it leaves.
loadAuthToken(storage, now) ==
  LET token == storage.authToken IN
    IF FalsyToken(token) THEN [result |-> NullToken, storage |-> storage]
    ELSE IF isTokenExpired(token, now)
      THEN [result |-> NullToken, storage |-> EmptyStorage]
    ELSE [result |-> token, storage |-> storage]

loadAuthUser(storage) ==
  IF storage.authUser = NoItem THEN NullUser ELSE JSONparse(storage.authUser)

saveAuthSession(user, token) ==
  [authToken |-> token, authUser |-> JSONstringify(user)]

clearAuthSession == EmptyStorage

\* AuthProvider constructed over a storage: token from loadAuthToken, then
\* user from loadAuthUser of the storage loadAuthToken left.
AuthProvider(storage, now) ==
  LET loaded == loadAuthToken(storage, now) IN
    [phase |-> "run", storage |-> loaded.storage, token |-> loaded.result,
     user |-> loadAuthUser(loaded.storage), now |-> now,
     lastLoad |-> [stored |-> storage.authToken, result |-> loaded.result]]

InitAuth ==
  /\ InitTable
  /\ paging = PagingIdle
  /\ query = QueryIdle
  /\ debounce = DebounceIdle
  /\ filters = FiltersIdle
  /\ http = HttpIdle
  /\ hooks = HooksIdle
  /\ pager = PagerIdle
  /\ auth = AuthProvider(EmptyStorage, 0)

AuthUnchanged ==
  UNCHANGED <<tableVars, paging, query, debounce, filters, http, hooks, pager>>

login(nextUser, nextToken) ==
  /\ auth.phase = "run"
  /\ auth' = [auth EXCEPT
       !.user = nextUser,
       !.token = nextToken,
       !.storage = saveAuthSession(nextUser, nextToken)]
  /\ AuthUnchanged

logout ==
  /\ auth.phase = "run"
  /\ auth' = [auth EXCEPT
       !.user = NullUser,
       !.token = NullToken,
       !.storage = clearAuthSession]
  /\ AuthUnchanged

\* The application is loaded again: a new AuthProvider over the same storage.
AppLoad ==
  /\ auth.phase = "run"
  /\ auth' = AuthProvider(auth.storage, auth.now)
  /\ AuthUnchanged

ClockTick ==
  /\ auth.phase = "run"
  /\ auth.now < MaxClock
  /\ auth' = [auth EXCEPT !.now = @ + 1]
  /\ AuthUnchanged

NextAuth ==
  \/ \E nextUser \in AuthUsers, nextToken \in AuthTokens :
       login(nextUser, nextToken)
  \/ logout
  \/ AppLoad
  \/ ClockTick

SpecAuth == InitAuth /\ [][NextAuth]_vars

\* A stored token whose payload cannot be decoded, or without a numeric
\* expiry claim.
Malformed(token) ==
  /\ token.kind = "string"
  /\ ~token.empty
  /\ (token.parts < 2 \/ ~token.decodes \/ token.exp.kind # "number")

\* C23: loadAuthToken returns null for a malformed stored token (it is
\* treated as absent).
C23_MalformedIsAbsent ==
  (auth.phase = "run" /\ Malformed(auth.lastLoad.stored))
    => auth.lastLoad.result = NullToken


\* C29: the session is all-or-nothing: the token key and the user key are
\* both present or both absent in storage, and AuthProvider's token is
\* non-null exactly when its user is non-null.
C29_AllOrNothing ==
  auth.phase = "run" =>
    /\ (auth.storage.authToken # NullToken) <=> (auth.storage.authUser # NoItem)
    /\ (auth.token # NullToken) <=> (auth.user # NullUser)


(***************************************************************************)
(* Cancellation, paging and global loading of the reporting hooks          *)
(* (SpecHooks).                                                            *)
(***************************************************************************)
\* a response or a failure of request id arrives in this step: of the steps
\* of SpecHooks only HookResolveOk(id, ..) and HookResolveFail(id, ..) take
\* the record of request id away and leave mounted, unmounted and nEvents
HookResolves(id) ==
  /\ \E r \in hooks.requests : r.id = id
  /\ HookRequest(id) \notin hooks'.requests
  /\ hooks'.mounted = hooks.mounted
  /\ hooks'.unmounted = hooks.unmounted
  /\ hooks'.nEvents = hooks.nEvents

\* C24: in a reporting hook, the outcome of a load whose effect was cleaned
\* up (a dependency or the token changed, or the component was unmounted)
\* is never applied: its arrival changes neither data nor error nor loading.
C24_CancelledOutcomeDropped ==
  [][\A id \in HookRequestIds :
       (/\ IsReporting(hooks.kind)
        /\ HookResolves(id)
        /\ HookRequest(id).cancelled)
         => /\ hooks'.data = hooks.data
            /\ hooks'.error = hooks.error
            /\ hooks'.loading = hooks.loading]_vars

\* the only load of an unmounted reporting hook was answered and loading is
\* still as the load set it
C24_Witness ==
  /\ IsReporting(hooks.kind)
  /\ hooks.unmounted
  /\ hooks.requests = {}
  /\ hooks.loading
  /\ hooks.data = "empty"

\* C26: one load of useTransactionsVolume asks for one page at a time, with
\* length 100 and start 0, 100, 200, ..., at most maxPages = 20 pages; after
\* a page with fewer than 100 rows it asks for no further page; and every
\* answer either ends the load or moves it to the next page, so a load whose
\* requests are all answered ends after at most 20 answers.
C26_VolumePages ==
  [][hooks.kind = "volume" =>
       /\ \A r \in hooks'.requests :
            /\ r.page < maxPages
            /\ r.start = r.page * 100
            /\ r.length = 100
       /\ \A r1, r2 \in hooks'.requests : r1.id = r2.id => r1 = r2
       /\ \A id \in HookRequestIds :
            HookResolves(id)
              => LET before == HookRequest(id)
                     after == {r \in hooks'.requests : r.id = id}
                 IN after # {} =>
                      /\ \A r \in after : r.page = before.page + 1
                      /\ ~before.cancelled
                      /\ ~HookResolveOk(id, FALSE)
                      /\ \A err \in Failures : ~HookResolveFail(id, err)]_vars

\* the twentieth page of a load is being fetched
C26_Witness ==
  /\ hooks.kind = "volume"
  /\ \E r \in hooks.requests :
       r.page = maxPages - 1 /\ r.start = 1900 /\ ~r.cancelled

\* C28: the count of GlobalLoadingProvider is never negative and equals the
\* number of loads of the reporting hook still in flight, whichever way the
\* loads ended; isLoading is false when none is in flight.
C28_GlobalLoadingCount ==
  IsReporting(hooks.kind) =>
    /\ hooks.count >= 0
    /\ hooks.count = Cardinality(hooks.requests)
    /\ (hooks.requests = {} => ~isLoading(hooks.count))

\* two loads were cancelled and have ended, the third is in flight
C28_Witness ==
  /\ IsReporting(hooks.kind)
  /\ hooks.count = 1
  /\ \E r \in hooks.requests :
       r.id = 3 /\ ~r.cancelled /\ hooks.requests = {r}


\* C27: a render of ServerDataTable with its effects sets pageIndex back to
\* 0 only when it commits a new search term or a filter value has changed,
\* never by itself; so the page goToPage has chosen stays until the user
\* sorts, filters, searches, changes the page size or resets the filters.
C27_RenderKeepsPage ==
  [][(Render /\ pageIndex > 0 /\ pageIndex' = 0)
       => \/ search' # search
          \/ rendered.filterDeps # filterDepsOf(filterState)]_vars


\* C25: a failed fetch of the table is not retried: the failure changes no
\* dependency of the fetch effect and issues no request, and while an error
\* is shown a request is issued only by a render whose dependency values
\* (page index, page size, sort, committed search, filter values) differ
\* from those of the render before.
C25_NoRetryAfterFailure ==
  [][/\ (error' # NoError /\ error' # error)
          => /\ issued' = issued
             /\ pageIndex' = pageIndex
             /\ pageSize' = pageSize
             /\ search' = search
             /\ sortColumn' = sortColumn
             /\ sortDir' = sortDir
             /\ filterState' = filterState
     /\ (error # NoError /\ issued' # issued)
          => \/ rendered # depsOf(pageIndex, pageSize, search, sortColumn,
                                  sortDir, filterState)
             \/ filterFresh]_vars

\* the table has settled after a failed fetch: the error is shown, nothing
\* is in flight and no render is pending
C25_Witness ==
  /\ error # NoError
  /\ ~loading
  /\ ~dirty
  /\ inflight = {}
  /\ issued >= 1
  /\ rendered = depsOf(pageIndex, pageSize, search, sortColumn, sortDir,
                       filterState)

=============================================================================
